---- MODULE Spec2Model ----
(***************************************************************************)
(* A model of setup.py of mamba_ssm (Metal fork): the module body run by   *)
(* the interpreter from the imports (MPS_BUILD, line 38) through            *)
(* setup_mps_or_cuda() (line 138) to the setup() call (lines 141-178).      *)
(* Python strings that the code parses or joins are sequences of            *)
(* one-character strings; opaque strings (flags, paths, names) are strings. *)
(***************************************************************************)
EXTENDS Integers, Sequences, FiniteSets, TLC

VARIABLES
    sys_platform,         \* sys.platform
    mps_is_built,         \* what torch.backends.mps.is_built() returns
    CUDA_HOME,            \* torch.utils.cpp_extension.CUDA_HOME (None or a path)
    cuda_version,         \* the toolkit release installed under CUDA_HOME
    MAMBA_LOCAL_VERSION,  \* os.environ.get("MAMBA_LOCAL_VERSION")
    init_py,              \* the text of mamba_ssm/__init__.py
    pc,                   \* the line the interpreter is about to run
    MPS_BUILD,            \* module global, line 38
    cc_flag,              \* local of setup_mps_or_cuda, line 97
    ext_modules,          \* module global, line 138
    extra_compile_args,   \* module global, line 138
    version,              \* value of get_package_version(), line 143
    setup_kwargs,         \* keyword arguments setup() was called with
    error,                \* the exception that ended the run
    stages,               \* the steps run so far, in order
    outcomes              \* outcomes of the earlier runs in this interpreter

env == <<sys_platform, mps_is_built, CUDA_HOME, cuda_version,
         MAMBA_LOCAL_VERSION, init_py>>
vars == <<sys_platform, mps_is_built, CUDA_HOME, cuda_version,
          MAMBA_LOCAL_VERSION, init_py, pc, MPS_BUILD, cc_flag,
          ext_modules, extra_compile_args, version, setup_kwargs, error,
          stages, outcomes>>

\* Number of times the resolution is run in one interpreter (SpecTwice).
MaxRuns == 2

None == [tag |-> "None"]
Some(v) == [tag |-> "Some", val |-> v]

-----------------------------------------------------------------------------
(* Constants of the script *)

PACKAGE_NAME == "mamba_ssm"

\* Version("11.6"), as <<major, minor>>
MinCudaVersion == <<11, 6>>

\* The names bound in the module's global namespace when line 138 runs:
\* the imports of lines 1-24 and the definitions of lines 30-75.
ModuleGlobals ==
    {"sys", "warnings", "os", "re", "ast", "Path", "parse", "Version",
     "platform", "shutil", "setup", "find_packages", "subprocess", "urllib",
     "_bdist_wheel", "torch", "BuildExtension", "CppExtension", "CUDA_HOME",
     "HIP_HOME", "check_if_mps_supported", "MPS_BUILD", "this_dir",
     "PACKAGE_NAME", "BASE_WHEEL_URL", "get_platform", "get_package_version",
     "append_nvcc_threads", "setup_mps_or_cuda"}

IncludeDir == "csrc/selective_scan"

CxxFlags == <<"-O3", "-std=c++17">>

MpsFlags ==
    <<"-O3", "-std=c++17", "-framework", "Metal", "-mmacosx-version-min=10.14">>

NvccBaseFlags ==
    <<"-O3", "-std=c++17", "-U__CUDA_NO_HALF_OPERATORS__",
      "-U__CUDA_NO_HALF_CONVERSIONS__", "--expt-relaxed-constexpr",
      "--expt-extended-lambda", "--use_fast_math">>

GencodeFlags ==
    <<"-gencode", "arch=compute_53,code=sm_53",
      "-gencode", "arch=compute_62,code=sm_62",
      "-gencode", "arch=compute_70,code=sm_70">>

MpsSources ==
    <<"csrc/selective_scan/selective_scan.cpp",
      "csrc/selective_scan/selective_scan_fwd_mps.cpp">>

CudaSources ==
    <<"csrc/selective_scan/selective_scan.cpp",
      "csrc/selective_scan/selective_scan_fwd_fp32.cu",
      "csrc/selective_scan/selective_scan_fwd_fp16.cu">>

-----------------------------------------------------------------------------
(* Strings as sequences of characters *)

VersionKw == <<"_", "_", "v", "e", "r", "s", "i", "o", "n", "_", "_">>

Digits == {"0", "1", "2", "3", "4", "5", "6", "7", "8", "9"}

\* \s of the re module, restricted to the characters the sample files use
IsSpace(c) == c \in {" ", "\t", "\n"}

\* first index >= i of t that holds no whitespace (Len(t) + 1 when none)
RECURSIVE SkipSpace(_, _)
SkipSpace(t, i) ==
    IF i > Len(t) \/ ~IsSpace(t[i]) THEN i ELSE SkipSpace(t, i + 1)

\* first index >= i of t that holds a newline (Len(t) + 1 when none)
RECURSIVE LineEnd(_, _)
LineEnd(t, i) ==
    IF i > Len(t) \/ t[i] = "\n" THEN i ELSE LineEnd(t, i + 1)

\* ^ under re.MULTILINE
AtLineStart(t, i) == i = 1 \/ t[i - 1] = "\n"

HasKwAt(t, i) ==
    /\ i + Len(VersionKw) - 1 <= Len(t)
    /\ SubSeq(t, i, i + Len(VersionKw) - 1) = VersionKw

\* r"^__version__\s*=\s*(.*)$" matched at index i: the index of "=" or 0
EqualsAfterKw(t, i) ==
    LET j == SkipSpace(t, i + Len(VersionKw))
    IN  IF AtLineStart(t, i) /\ HasKwAt(t, i) /\ j <= Len(t) /\ t[j] = "="
        THEN j ELSE 0

\* group(1) of the match whose "=" is at index j
Group1(t, j) ==
    LET k == SkipSpace(t, j + 1)
    IN  SubSeq(t, k, LineEnd(t, k) - 1)

\* re.search(r"^__version__\s*=\s*(.*)$", t, re.MULTILINE): the leftmost match
ReSearch(t) ==
    LET hits == {i \in 1..Len(t) : EqualsAfterKw(t, i) > 0}
    IN  IF hits = {} THEN None
        ELSE LET i == CHOOSE m \in hits : \A n \in hits : m <= n
             IN  Some(Group1(t, EqualsAfterKw(t, i)))

\* str.rstrip of blanks
RECURSIVE RStrip(_)
RStrip(t) ==
    IF t # <<>> /\ t[Len(t)] \in {" ", "\t"}
    THEN RStrip(SubSeq(t, 1, Len(t) - 1)) ELSE t

IsQuote(c) == c \in {"\"", "'"}

\* a single-line string literal without escapes: 'abc' or "abc"
IsStrLiteral(t) ==
    /\ Len(t) >= 2
    /\ IsQuote(t[1])
    /\ t[Len(t)] = t[1]
    /\ \A i \in 2..(Len(t) - 1) : t[i] # t[1] /\ t[i] # "\\"

\* a decimal integer literal (Python 3 rejects a leading zero)
IsIntLiteral(t) ==
    /\ t # <<>>
    /\ \A i \in 1..Len(t) : t[i] \in Digits
    /\ (Len(t) > 1 => t[1] # "0")

\* a lower-case name that is no keyword: it parses, as an expression that
\* is no literal
IsName(t) ==
    /\ t # <<>>
    /\ \A i \in 1..Len(t) : t[i] \in {"v", "e", "r"}

\* ast.literal_eval on the literals above; a name is rejected with
\* ValueError, and anything else in the sample files is text that Python
\* cannot parse
LiteralEval(text) ==
    LET t == RStrip(text)
    IN  IF IsStrLiteral(t)
        THEN [ok |-> TRUE, type |-> "str", val |-> SubSeq(t, 2, Len(t) - 1)]
        ELSE IF IsIntLiteral(t)
        THEN [ok |-> TRUE, type |-> "int", val |-> t]
        ELSE IF IsName(t)
        THEN [ok |-> FALSE, exc |-> "ValueError"]
        ELSE [ok |-> FALSE, exc |-> "SyntaxError"]

\* str(x) of a value LiteralEval returns
Str(x) == x.val

\* bool(s) of a str or None
Truthy(opt) == opt.tag = "Some" /\ opt.val # <<>>

-----------------------------------------------------------------------------
(* Functions of the script *)

\* str.startswith("linux") on the platform identifiers of the model
StartsWithLinux(p) == p \in {"linux", "linux2"}

\* the function testing for an identifier sys.platform never takes
check_if_mps_supported_wrongOs(platform, is_built) ==
    platform = "macos" /\ is_built

\* lines 30-36

check_if_mps_supported(platform, is_built) ==
    platform = "darwin" /\ is_built

get_platform(platform) ==
    IF StartsWithLinux(platform) THEN [ok |-> TRUE, val |-> "linux_x86_64"]
    ELSE IF platform = "darwin" THEN [ok |-> TRUE, val |-> "macosx_x86_64"]
    ELSE IF platform = "win32" THEN [ok |-> TRUE, val |-> "win_amd64"]
    ELSE [ok |-> FALSE, exc |-> "ValueError"]

\* the function with "if local_version is not None:" at line 65
get_package_version_isNotNone(text, local_version) ==
    LET version_match == ReSearch(text)
    IN  IF version_match.tag = "None"
        THEN [ok |-> FALSE, exc |-> "AttributeError"]
        ELSE LET public_version == LiteralEval(version_match.val)
             IN  IF ~public_version.ok
                 THEN [ok |-> FALSE, exc |-> public_version.exc]
                 ELSE IF local_version.tag = "Some"
                 THEN [ok |-> TRUE,
                       val |-> Str(public_version) \o <<"+">>
                                   \o local_version.val]
                 ELSE [ok |-> TRUE, val |-> Str(public_version)]

\* the function with lines 61-63 wrapped in try/except that falls back to
\* the version "0.0.0"
get_package_version_fallback(text, local_version) ==
    LET version_match == ReSearch(text)
        public_version ==
            IF version_match.tag = "None" THEN [ok |-> FALSE]
            ELSE LiteralEval(version_match.val)
        shown == IF public_version.ok THEN Str(public_version)
                 ELSE <<"0", ".", "0", ".", "0">>
    IN  IF Truthy(local_version)
        THEN [ok |-> TRUE, val |-> shown \o <<"+">> \o local_version.val]
        ELSE [ok |-> TRUE, val |-> shown]

\* lines 60-68; text is what f.read() returns
get_package_version(text, local_version) ==
    LET version_match == ReSearch(text)
    IN  IF version_match.tag = "None"
        THEN [ok |-> FALSE, exc |-> "AttributeError"]
        ELSE LET public_version == LiteralEval(version_match.val)
             IN  IF ~public_version.ok
                 THEN [ok |-> FALSE, exc |-> public_version.exc]
                 ELSE IF Truthy(local_version)
                 THEN [ok |-> TRUE,
                       val |-> Str(public_version) \o <<"+">>
                                   \o local_version.val]
                 ELSE [ok |-> TRUE, val |-> Str(public_version)]

append_nvcc_threads(nvcc_extra_args) == nvcc_extra_args \o <<"--threads", "4">>

\* bare_metal_version < Version("11.6") on <<major, minor>> releases
VersionLess(a, b) == a[1] < b[1] \/ (a[1] = b[1] /\ a[2] < b[2])

CppExtension(name, sources, compile_args, include_dirs) ==
    [name |-> name, sources |-> sources,
     extra_compile_args |-> compile_args, include_dirs |-> include_dirs]

-----------------------------------------------------------------------------
(* The environments the script is run in *)

Platforms == {"linux", "darwin", "win32", "freebsd13"}

CudaReleases == {<<10, 2>>, <<11, 5>>, <<11, 6>>, <<11, 8>>, <<12, 1>>}

Assign(rhs) == VersionKw \o <<" ", "=", " ">> \o rhs \o <<"\n">>

V123 == <<"1", ".", "2", ".", "3">>
V210 == <<"2", ".", "1", ".", "0">>

\* contents of mamba_ssm/__init__.py
InitPyFiles ==
    { \* __version__ = "1.2.3"
      Assign(<<"\"">> \o V123 \o <<"\"">>),
      \* a comment line, then __version__='2.1.0' followed by blanks
      <<"#", "\n">> \o VersionKw \o <<"=", "'">> \o V210 \o <<"'", " ", "\n">>,
      \* __version__ = 2
      Assign(<<"2">>),
      \* __version__ = ver (a name, not a literal)
      Assign(<<"v", "e", "r">>),
      \* __version__ = 1.2.3 (no quotes)
      Assign(V123),
      \* __version__ = "1.2.3 (no closing quote)
      Assign(<<"\"">> \o V123),
      \* __version__ = (nothing after the sign, end of file)
      VersionKw \o <<" ", "=">>,
      \* version = "1.2.3" (another name)
      <<"v", "e", "r", "s", "i", "o", "n", " ", "=", " ", "\"">> \o V123
          \o <<"\"", "\n">>,
      \* indented:   __version__ = "1.2.3"
      <<" ">> \o Assign(<<"\"">> \o V123 \o <<"\"">>),
      \* an empty file
      <<>> }

\* values of os.environ.get("MAMBA_LOCAL_VERSION"): unset, set to the empty
\* string, set to abc123

LocalVersions == {None, Some(<<>>), Some(<<"a", "b", "c", "1", "2", "3">>)}

Init ==
    /\ sys_platform \in Platforms
    /\ mps_is_built \in (IF sys_platform = "darwin" THEN BOOLEAN ELSE {FALSE})
    /\ \/ CUDA_HOME = None /\ cuda_version = None
       \/ CUDA_HOME = Some("/usr/local/cuda") /\ cuda_version \in CudaReleases
    /\ MAMBA_LOCAL_VERSION \in LocalVersions
    /\ init_py \in InitPyFiles
    /\ pc = "L38"
    /\ MPS_BUILD = FALSE
    /\ cc_flag = <<>>
    /\ ext_modules = <<>>
    /\ extra_compile_args = <<>>
    /\ version = None
    /\ setup_kwargs = None
    /\ error = "none"
    /\ stages = <<>>
    /\ outcomes = <<>>

-----------------------------------------------------------------------------
(* The steps of the script *)

Raise(exc) == pc' = "failed" /\ error' = exc

\* lines 18-38: the imports, then MPS_BUILD = check_if_mps_supported()
LoadModule ==
    /\ pc = "L38"
    /\ MPS_BUILD' = check_if_mps_supported(sys_platform, mps_is_built)
    /\ pc' = "L76"
    /\ stages' = Append(stages, "LoadModule")
    /\ UNCHANGED <<env, cc_flag, ext_modules, extra_compile_args, version,
                   setup_kwargs, error, outcomes>>

\* line 76 with MPS_BUILD used as a one-shot flag that the test clears
TestMps_clearsFlag ==
    /\ pc = "L76"
    /\ pc' = IF sys_platform = "darwin" /\ MPS_BUILD THEN "L77" ELSE "L97"
    /\ MPS_BUILD' = FALSE
    /\ stages' = Append(stages, "TestMps")
    /\ UNCHANGED <<env, cc_flag, ext_modules, extra_compile_args,
                   version, setup_kwargs, error, outcomes>>

\* line 138 enters setup_mps_or_cuda; line 76: the test of the if
TestMps ==
    /\ pc = "L76"
    /\ pc' = IF sys_platform = "darwin" /\ MPS_BUILD THEN "L77" ELSE "L97"
    /\ stages' = Append(stages, "TestMps")
    /\ UNCHANGED <<env, MPS_BUILD, cc_flag, ext_modules, extra_compile_args,
                   version, setup_kwargs, error, outcomes>>

\* lines 77-93, and the assignment of line 138
BuildMps ==
    /\ pc = "L77"
    /\ LET args == [cxx |-> CxxFlags, mps |-> MpsFlags]
       IN  /\ extra_compile_args' = args
           /\ ext_modules' = <<CppExtension("selective_scan_mps", MpsSources,
                                            args, <<IncludeDir>>)>>
    /\ pc' = "L143"
    /\ stages' = Append(stages, "BuildMps")
    /\ UNCHANGED <<env, MPS_BUILD, cc_flag, version, setup_kwargs, error,
                   outcomes>>

\* lines 95-100
ProbeCuda ==
    /\ pc = "L97"
    /\ cc_flag' = <<>>
    /\ pc' = IF /\ sys_platform = "linux" \/ sys_platform = "win32"
                /\ CUDA_HOME # None
             THEN "L101" ELSE "L108"
    /\ stages' = Append(stages, "ProbeCuda")
    /\ UNCHANGED <<env, MPS_BUILD, ext_modules, extra_compile_args, version,
                   setup_kwargs, error, outcomes>>

\* lines 101-106. get_cuda_bare_metal_version is looked up in the module's
\* globals when line 101 runs; the script neither defines nor imports it.
ValidateCuda ==
    /\ pc = "L101"
    /\ IF "get_cuda_bare_metal_version" \notin ModuleGlobals
       THEN Raise("NameError") /\ UNCHANGED cc_flag
       ELSE IF VersionLess(cuda_version, MinCudaVersion)
       THEN Raise("RuntimeError") /\ UNCHANGED cc_flag
       ELSE /\ cc_flag' = cc_flag \o GencodeFlags
            /\ pc' = "L108"
            /\ UNCHANGED error
    /\ stages' = Append(stages, "ValidateCuda")
    /\ UNCHANGED <<env, MPS_BUILD, ext_modules, extra_compile_args, version,
                   setup_kwargs, outcomes>>

\* lines 108-135, and the assignment of line 138
BuildCuda ==
    /\ pc = "L108"
    /\ LET args == [cxx |-> CxxFlags,
                    nvcc |-> append_nvcc_threads(NvccBaseFlags \o cc_flag)]
       IN  /\ extra_compile_args' = args
           /\ ext_modules' = <<CppExtension("selective_scan_cuda", CudaSources,
                                            args, <<IncludeDir>>)>>
    /\ pc' = "L143"
    /\ stages' = Append(stages, "BuildCuda")
    /\ UNCHANGED <<env, MPS_BUILD, cc_flag, version, setup_kwargs, error,
                   outcomes>>

\* line 143: the argument version=get_package_version() (lines 60-68)
GetPackageVersion ==
    /\ pc = "L143"
    /\ LET r == get_package_version(init_py, MAMBA_LOCAL_VERSION)
       IN  IF r.ok
           THEN version' = Some(r.val) /\ pc' = "L141" /\ UNCHANGED error
           ELSE Raise(r.exc) /\ UNCHANGED version
    /\ stages' = Append(stages, "GetPackageVersion")
    /\ UNCHANGED <<env, MPS_BUILD, cc_flag, ext_modules, extra_compile_args,
                   setup_kwargs, outcomes>>

\* lines 141-178: setup() is called once its arguments are evaluated
CallSetup ==
    /\ pc = "L141"
    /\ setup_kwargs' = Some([name |-> PACKAGE_NAME, version |-> version.val,
                             ext_modules |-> ext_modules])
    /\ pc' = "done"
    /\ stages' = Append(stages, "CallSetup")
    /\ UNCHANGED <<env, MPS_BUILD, cc_flag, ext_modules, extra_compile_args,
                   version, error, outcomes>>

Next ==
    \/ LoadModule
    \/ TestMps
    \/ BuildMps
    \/ ProbeCuda
    \/ ValidateCuda
    \/ BuildCuda
    \/ GetPackageVersion
    \/ CallSetup

Spec == Init /\ [][Next]_vars

-----------------------------------------------------------------------------
(* The resolution run again in the same interpreter *)

\* what a finished run leaves
Outcome ==
    [pc |-> pc, error |-> error, ext_modules |-> ext_modules,
     extra_compile_args |-> extra_compile_args, version |-> version,
     setup_kwargs |-> setup_kwargs]

\* setup_mps_or_cuda() and the setup() call are run once more in the same
\* interpreter: the module globals bound by the imports stay as they are
Rerun ==
    /\ pc \in {"done", "failed"}
    /\ Len(outcomes) + 1 < MaxRuns
    /\ outcomes' = Append(outcomes, Outcome)
    /\ pc' = "L76"
    /\ ext_modules' = <<>>
    /\ extra_compile_args' = <<>>
    /\ version' = None
    /\ setup_kwargs' = None
    /\ error' = "none"
    /\ stages' = <<>>
    /\ UNCHANGED <<env, MPS_BUILD, cc_flag>>

NextTwice == Next \/ Rerun

SpecTwice == Init /\ [][NextTwice]_vars

-----------------------------------------------------------------------------
(* Vocabulary of the properties *)

Range(seq) == {seq[i] : i \in 1..Len(seq)}

Last(seq) == seq[Len(seq)]

\* the three operating systems the resolver recognises
SupportedOs == {"linux", "darwin", "win32"}

\* a macOS host on which Metal-capable compute is reported
MetalHost == sys_platform = "darwin" /\ mps_is_built

\* a Linux or Windows host with a CUDA installation path
CudaHost == sys_platform \in {"linux", "win32"} /\ CUDA_HOME # None

\* the backend the host's environment calls for
DetectedBackend ==
    IF MetalHost THEN "Metal" ELSE IF CudaHost THEN "CUDA" ELSE "None"

\* setup_mps_or_cuda() has returned: ext_modules and extra_compile_args
\* are bound (line 138)
Resolved == Range(stages) \cap {"BuildMps", "BuildCuda"} # {}

\* the backends whose content an extension carries
BackendsOf(ext) ==
    {b \in {"Metal", "CUDA"} :
        \/ b = "Metal" /\ ext.name = "selective_scan_mps"
        \/ b = "Metal" /\ "mps" \in DOMAIN ext.extra_compile_args
        \/ b = "Metal"
              /\ "csrc/selective_scan/selective_scan_fwd_mps.cpp"
                     \in Range(ext.sources)
        \/ b = "CUDA" /\ ext.name = "selective_scan_cuda"
        \/ b = "CUDA" /\ "nvcc" \in DOMAIN ext.extra_compile_args
        \/ b = "CUDA"
              /\ Range(ext.sources)
                     \cap {"csrc/selective_scan/selective_scan_fwd_fp32.cu",
                           "csrc/selective_scan/selective_scan_fwd_fp16.cu"}
                     # {}}

ConfigBackends == UNION {BackendsOf(ext_modules[i]) : i \in 1..Len(ext_modules)}

\* the indices of flags at which a -gencode pair starts
GencodeAt(flags) == {i \in 1..Len(flags) : flags[i] = "-gencode"}

HasPair(flags, a, b) ==
    \E i \in 1..(Len(flags) - 1) : flags[i] = a /\ flags[i + 1] = b

\* the value of the literal that __init__.py assigns to __version__
PublicVersion == Str(LiteralEval(ReSearch(init_py).val))

\* __init__.py holds no __version__ line, or one whose right-hand side is
\* no literal
MalformedInitPy ==
    \/ ReSearch(init_py) = None
    \/ ~LiteralEval(ReSearch(init_py).val).ok

-----------------------------------------------------------------------------
(* Properties *)

\* C1: on a host without Metal and without a CUDA installation path, the
\* build step receives an empty extension list.
C1_NoAcceleratorNoExtension ==
    (~MetalHost /\ CUDA_HOME = None /\ setup_kwargs # None)
        => setup_kwargs.val.ext_modules = <<>>

\* C2: on a Linux or Windows host with a CUDA path, once the version has
\* been validated the run has failed without a configuration when the
\* release is below 11.6, and goes on to build the CUDA configuration with
\* the three -gencode pairs when it is 11.6 or above.
C2_VersionGate ==
    (CudaHost /\ "ValidateCuda" \in Range(stages))
        => IF VersionLess(cuda_version, MinCudaVersion)
           THEN pc = "failed" /\ ext_modules = <<>> /\ setup_kwargs = None
           ELSE /\ error = "none"
                /\ cc_flag = GencodeFlags
                /\ Resolved => ConfigBackends = {"CUDA"}

\* the rank of a step among the stages detectPlatform (1), detectToolkit
\* (2), validateVersion (3), buildConfiguration (4); 0 for the other steps
StageRank(step) ==
    CASE step \in {"TestMps", "ProbeCuda"} -> 2
      [] step = "ValidateCuda" -> 3
      [] step \in {"BuildMps", "BuildCuda"} -> 4
      [] OTHER -> 0

\* a stage of the run fails on this host
SomeStageFails ==
    \/ sys_platform \notin SupportedOs
    \/ CudaHost /\ ~MetalHost /\ VersionLess(cuda_version, MinCudaVersion)
    \/ MalformedInitPy

\* C3: the stages run in order, each step at most once, and a run in which
\* a stage fails never reaches setup().
C3_PipelineAborts ==
    /\ \A i, j \in 1..Len(stages) :
          i < j => /\ stages[i] # stages[j]
                   /\ (StageRank(stages[i]) > 0 /\ StageRank(stages[j]) > 0
                          => StageRank(stages[i]) <= StageRank(stages[j]))
    /\ SomeStageFails => setup_kwargs = None

\* C4: platform detection succeeds exactly on linux, darwin and win32, and
\* a host with any other identifier never has a build configuration.
C4_UnsupportedPlatformRejected ==
    /\ \A p \in Platforms : get_platform(p).ok <=> p \in SupportedOs
    /\ ~get_platform(sys_platform).ok => ~Resolved /\ setup_kwargs = None

\* C5: a CUDA extension's nvcc flags hold exactly the three -gencode pairs
\* for 53, 62 and 70 and --use_fast_math; a Metal extension's flags hold
\* -framework Metal and no -gencode.
C5_BackendFlags ==
    \A i \in 1..Len(ext_modules) :
        LET ext == ext_modules[i]
            args == ext.extra_compile_args
        IN  /\ ext.name = "selective_scan_cuda" =>
                /\ Cardinality(GencodeAt(args.nvcc)) = 3
                /\ HasPair(args.nvcc, "-gencode", "arch=compute_53,code=sm_53")
                /\ HasPair(args.nvcc, "-gencode", "arch=compute_62,code=sm_62")
                /\ HasPair(args.nvcc, "-gencode", "arch=compute_70,code=sm_70")
                /\ "--use_fast_math" \in Range(args.nvcc)
            /\ ext.name = "selective_scan_mps" =>
                /\ HasPair(args.mps, "-framework", "Metal")
                /\ \A r \in DOMAIN args : "-gencode" \notin Range(args[r])

\* C6: on a macOS host with Metal reported, whatever CUDA_HOME is, the
\* run never probes or validates CUDA, and what setup_mps_or_cuda returns
\* and setup() receives is the one extension selective_scan_mps with the
\* Metal forward-pass source.
C6_MetalSelected ==
    MetalHost =>
        /\ Range(stages) \cap {"ProbeCuda", "ValidateCuda", "BuildCuda"} = {}
        /\ error \notin {"NameError", "RuntimeError"}
        /\ "TestMps" \in Range(stages) => Resolved \/ pc = "L77"
        /\ Resolved =>
              /\ Len(ext_modules) = 1
              /\ ext_modules[1].name = "selective_scan_mps"
              /\ "csrc/selective_scan/selective_scan_fwd_mps.cpp"
                     \in Range(ext_modules[1].sources)
              /\ ConfigBackends = {"Metal"}
        /\ setup_kwargs # None => setup_kwargs.val.ext_modules = ext_modules

C6_Witness ==
    /\ MetalHost
    /\ CUDA_HOME # None
    /\ pc = "done"
    /\ setup_kwargs.val.ext_modules[1].name = "selective_scan_mps"

\* C7: a resolved configuration carries the content of at most one
\* backend, and that backend is the one the environment calls for.
C7_OneBackendAsDetected ==
    Resolved =>
        /\ Cardinality(ConfigBackends) <= 1
        /\ ConfigBackends =
               (IF DetectedBackend = "None" THEN {} ELSE {DetectedBackend})

\* C8 as stated: the version is the literal's value when
\* MAMBA_LOCAL_VERSION is unset, and value + "+" + l when it is set to l,
\* for every l.
C8_AsStated ==
    version # None =>
        version.val =
            IF MAMBA_LOCAL_VERSION = None THEN PublicVersion
            ELSE PublicVersion \o <<"+">> \o MAMBA_LOCAL_VERSION.val

\* C8 amended: the version is the literal's value when MAMBA_LOCAL_VERSION
\* is unset or set to the empty string, and value + "+" + l when it is set
\* to a non-empty l.
C8_VersionJoin ==
    version # None =>
        version.val =
            IF MAMBA_LOCAL_VERSION = None \/ MAMBA_LOCAL_VERSION.val = <<>>
            THEN PublicVersion
            ELSE PublicVersion \o <<"+">> \o MAMBA_LOCAL_VERSION.val

C8_Witness ==
    /\ pc = "done"
    /\ MAMBA_LOCAL_VERSION = Some(<<"a", "b", "c", "1", "2", "3">>)
    /\ setup_kwargs.val.version = V123 \o <<"+", "a", "b", "c", "1", "2", "3">>

\* C9: a run of the resolution that ends in the same interpreter and
\* environment as an earlier run ends as that run did: the same failure, or
\* the same extensions, flags and version handed to setup().
C9_Idempotent ==
    pc \in {"done", "failed"} =>
        \A i \in 1..Len(outcomes) : outcomes[i] = Outcome

C9_Witness ==
    /\ Len(outcomes) >= 1
    /\ pc = "done"
    /\ MetalHost
    /\ outcomes[1].pc = "done"

====
